---- MODULE Spec2Model ----
(***************************************************************************)
(* Authentication and account-security core of the URL changer backend:    *)
(* the account table, the failed-login tracker, the token service and the  *)
(* request handlers that compose them.                                     *)
(*                                                                         *)
(* Time is counted in whole minutes of UTC.  Strings are TLA+ strings;     *)
(* str.lower() is the table Lowercase over the strings the model uses.     *)
(* main.py imports its password and token helpers from a module `auth`;    *)
(* the helpers of those names are modelled from backend/auth_enhanced.py.  *)
(***************************************************************************)
EXTENDS Integers, Sequences, FiniteSets, TLC

VARIABLES users, next_id, url_mappings, on_delete, failed_login_attempts,
          tokens, now, tz, request, response, output, login_streak

vars == <<users, next_id, url_mappings, on_delete, failed_login_attempts,
          tokens, now, tz, request, response, output, login_streak>>

(***************************************************************************)
(* Bounds of the model.                                                    *)
(***************************************************************************)
MaxUsers == 3
MaxTokens == 1
MaxCount == 6
MaxClicks == 2

\* Moments at which the clock is observed (minutes, UTC).
Instants == {1, 2, 16, 17, 31, 32, 1381, 1382, 1441, 1442, 1501, 1502}

\* Offsets of the server's local time against UTC (minutes).
TzOffsets == {-60, 0, 60}

\* What the foreign key of url_mappings.user_id does when the referenced
\* account is deleted: the key create_all makes, or the key of migrate_db.py.
FkActions == {"NO ACTION", "CASCADE"}

Sources == {"ip1", "ip2"}
UsernameInputs == {"Alice", "alice", "bob", "a-b"}
EmailInputs == {"A@x.com", "a@x.com", "b@x.com"}
PasswordInputs == {"secret1", "short"}
Salts == {"s1", "s2"}
TtlInputs == {0, 30, 2880}

\* Two secrets of 73 characters that differ in the last one only.
LongSecret1 == "aaaaaaaaaabbbbbbbbbbccccccccccddddddddddeeeeeeeeeeffffffffffgggggggggghh1"
LongSecret2 == "aaaaaaaaaabbbbbbbbbbccccccccccddddddddddeeeeeeeeeeffffffffffgggggggggghh2"

\* What the installed bcrypt does with a password over its limit: bcrypt
\* before 5.0 cuts it, bcrypt 5.0 raises ValueError.
BcryptLongPassword == {"truncate", "raise"}
ApiKeyInputs == {"server-api-key", "guess"}
ShortCodeInputs == {"", "ab", "abc", "xyz"}
SlackNames == {"bob", "Bob"}

(***************************************************************************)
(* Program constants.                                                      *)
(***************************************************************************)
ACCESS_TOKEN_EXPIRE_MINUTES == 30
MAX_FAILED_ATTEMPTS == 5
LOCKOUT_DURATION == 15
MAX_TOKEN_AGE == 24 * 60
MIN_USERNAME_LENGTH == 3
MAX_USERNAME_LENGTH == 50
MIN_REGISTER_PASSWORD_LENGTH == 6
MIN_PASSWORD_LENGTH == 8

HTTP_200_OK == 200
HTTP_400_BAD_REQUEST == 400
HTTP_401_UNAUTHORIZED == 401
HTTP_422_UNPROCESSABLE_ENTITY == 422
HTTP_429_TOO_MANY_REQUESTS == 429
HTTP_500_INTERNAL_SERVER_ERROR == 500

SECRET_KEY == "server-secret"
API_KEY == "server-api-key"
MAX_URLS_PER_USER == 100
MAX_URLS_PER_BOT == 500
MIN_CUSTOM_CODE_LENGTH == 3
MAX_CUSTOM_CODE_LENGTH == 20
HTTP_403_FORBIDDEN == 403
HTTP_404_NOT_FOUND == 404
HTTP_308_PERMANENT_REDIRECT == 308
HTTP_410_GONE == 410

\* Attributes the ORM class User maps; any other attribute read or keyword
\* argument raises.
UserColumns == {"id", "username", "email", "hashed_password", "is_active", "created_at"}

(***************************************************************************)
(* Strings.                                                                *)
(***************************************************************************)
Lowercase ==
    ("Alice" :> "alice") @@ ("A@x.com" :> "a@x.com") @@
    ("slackbot-Bob" :> "slackbot-bob") @@
    ("slackbot-Bob@slack.bot" :> "slackbot-bob@slack.bot")

lower(s) == IF s \in DOMAIN Lowercase THEN Lowercase[s] ELSE s

\* Strings of the model that hold a character outside [a-zA-Z0-9_].
NonWordStrings == {"a-b", "A@x.com", "a@x.com", "b@x.com", "admin@organization.com",
                   "casi.lehtovuori@gmail.com", "carol@x.com"}

\* UserCreate.validate_username
validate_username(v) ==
    /\ ~(Len(v) < MIN_USERNAME_LENGTH \/ Len(v) > MAX_USERNAME_LENGTH)
    /\ v \notin NonWordStrings

\* UserCreate.validate_password
validate_password(v) == ~(Len(v) < MIN_REGISTER_PASSWORD_LENGTH)

(***************************************************************************)
(* PasswordHasher.  A bcrypt hash is modelled by its salt and the digest   *)
(* of (salt, password); a stored string that is not a bcrypt hash makes    *)
(* checkpw raise, which verify_password turns into False.                  *)
(***************************************************************************)
\* bcrypt reads at most BCRYPT_MAX_PASSWORD_BYTES bytes of the password.
BCRYPT_MAX_PASSWORD_BYTES == 72

bcrypt_truncate(password) ==
    IF Len(password) > BCRYPT_MAX_PASSWORD_BYTES
    THEN SubSeq(password, 1, BCRYPT_MAX_PASSWORD_BYTES) ELSE password

bcrypt_hashpw(password, salt) ==
    [alg |-> "bcrypt", salt |-> salt, digest |-> <<salt, bcrypt_truncate(password)>>]

get_password_hash(password, salt) == bcrypt_hashpw(password, salt)

verify_password_placeholder_as_password(plain_password, hashed_password) ==
    IF hashed_password.alg = "bcrypt"
    THEN bcrypt_hashpw(plain_password, hashed_password.salt) = hashed_password
    ELSE plain_password = hashed_password.text

verify_password(plain_password, hashed_password) ==
    IF hashed_password.alg = "bcrypt"
    THEN bcrypt_hashpw(plain_password, hashed_password.salt) = hashed_password
    ELSE FALSE

(***************************************************************************)
(* Account table.                                                          *)
(***************************************************************************)
AdminRow ==
    [id |-> 1, username |-> "admin", email |-> "admin@organization.com",
     hashed_password |-> get_password_hash("admin123", "s1"),
     is_active |-> TRUE, is_admin |-> TRUE]

InactiveRow ==
    [id |-> 2, username |-> "carol", email |-> "carol@x.com",
     hashed_password |-> get_password_hash("secret1", "s1"),
     is_active |-> FALSE, is_admin |-> FALSE]

\* Contents of the users table when the server starts.
InitialTables == {{AdminRow}, {AdminRow, InactiveRow}}

\* The column default of is_admin in the table (the ORM INSERT leaves it out).
IS_ADMIN_COLUMN_DEFAULT == FALSE

UsersByUsernameCaseSensitive(table, username) == {r \in table : r.username = username}

UsersByUsername(table, username) == {r \in table : lower(r.username) = lower(username)}
UsersByEmail(table, email) == {r \in table : lower(r.email) = lower(email)}
UsersById(table, id) == {r \in table : r.id = id}

(***************************************************************************)
(* LockoutTracker: failed_login_attempts maps a source to its record.  A   *)
(* record holds 'count' and, once set, 'lockout_until' (the empty set      *)
(* stands for the key being absent).  The fields 'first_attempt',          *)
(* 'last_attempt' and 'usernames' are written and only ever logged; they   *)
(* are left out.                                                           *)
(***************************************************************************)
Remove(map, key) == [k \in DOMAIN map \ {key} |-> map[k]]

utcnow(clock) == clock

check_rate_limit_expire_at_deadline(attempts, client_ip, clock) ==
    IF client_ip \notin DOMAIN attempts
    THEN [allowed |-> TRUE, attempts |-> attempts]
    ELSE IF attempts[client_ip].lockout_until # {}
         THEN IF \E until \in attempts[client_ip].lockout_until : utcnow(clock) >= until
              THEN [allowed |-> TRUE, attempts |-> Remove(attempts, client_ip)]
              ELSE [allowed |-> FALSE, attempts |-> attempts]
         ELSE [allowed |-> TRUE, attempts |-> attempts]

check_rate_limit_discard_partial(attempts, client_ip, clock) ==
    IF client_ip \notin DOMAIN attempts
    THEN [allowed |-> TRUE, attempts |-> attempts]
    ELSE IF attempts[client_ip].lockout_until # {}
         THEN IF \E until \in attempts[client_ip].lockout_until : utcnow(clock) > until
              THEN [allowed |-> TRUE, attempts |-> Remove(attempts, client_ip)]
              ELSE [allowed |-> FALSE, attempts |-> attempts]
         ELSE [allowed |-> TRUE, attempts |-> Remove(attempts, client_ip)]

\* check_rate_limit: the answer, and the map it leaves behind.
check_rate_limit(attempts, client_ip, clock) ==
    IF client_ip \notin DOMAIN attempts
    THEN [allowed |-> TRUE, attempts |-> attempts]
    ELSE IF attempts[client_ip].lockout_until # {}
         THEN IF \E until \in attempts[client_ip].lockout_until : utcnow(clock) > until
              THEN [allowed |-> TRUE, attempts |-> Remove(attempts, client_ip)]
              ELSE [allowed |-> FALSE, attempts |-> attempts]
         ELSE [allowed |-> TRUE, attempts |-> attempts]

record_failed_attempt_lock_after_threshold(attempts, client_ip, clock) ==
    LET attempt_data == IF client_ip \notin DOMAIN attempts
                        THEN [count |-> 0, lockout_until |-> {}]
                        ELSE attempts[client_ip]
        count == attempt_data.count + 1
    IN  (client_ip :> [count |-> count,
                       lockout_until |-> IF count > MAX_FAILED_ATTEMPTS
                                         THEN {utcnow(clock) + LOCKOUT_DURATION}
                                         ELSE attempt_data.lockout_until])
        @@ attempts

record_failed_attempt(attempts, client_ip, clock) ==
    LET attempt_data == IF client_ip \notin DOMAIN attempts
                        THEN [count |-> 0, lockout_until |-> {}]
                        ELSE attempts[client_ip]
        count == attempt_data.count + 1
    IN  (client_ip :> [count |-> count,
                       lockout_until |-> IF count >= MAX_FAILED_ATTEMPTS
                                         THEN {utcnow(clock) + LOCKOUT_DURATION}
                                         ELSE attempt_data.lockout_until])
        @@ attempts

clear_failed_attempts_of_every_source(attempts, client_ip) ==
    IF client_ip \in DOMAIN attempts THEN [s \in {} |-> 0] ELSE attempts

clear_failed_attempts(attempts, client_ip) ==
    IF client_ip \in DOMAIN attempts THEN Remove(attempts, client_ip) ELSE attempts

(***************************************************************************)
(* TokenService.  An HS256 signature is modelled as the pair of the key    *)
(* and the payload it was computed over.                                   *)
(***************************************************************************)
hs256(key, payload) == <<key, payload>>

jwt_encode(payload, key) == [payload |-> payload, sig |-> hs256(key, payload)]

jwt_decode_no_exp(token, key, clock) == token.sig = hs256(key, token.payload)

jwt_decode_exp_first_day_only(token, key, clock) ==
    /\ token.sig = hs256(key, token.payload)
    /\ ("exp" \in DOMAIN token.payload /\ utcnow(clock) <= MAX_TOKEN_AGE)
          => ~(token.payload.exp < utcnow(clock))

jwt_decode_no_signature(token, key, clock) ==
    "exp" \in DOMAIN token.payload /\ ~(token.payload.exp < utcnow(clock))

\* jose jwt.decode: the signature is verified first, then the exp claim.
jwt_decode(token, key, clock) ==
    /\ token.sig = hs256(key, token.payload)
    /\ ("exp" \in DOMAIN token.payload => ~(token.payload.exp < utcnow(clock)))

\* secrets.token_hex: an id no token issued so far carries.
token_hex(issued) == Cardinality(issued) + 1

\* expires_delta = 0 stands for a falsy argument (None or a zero timedelta).
create_access_token(data, expires_delta, clock, jti) ==
    LET expire == IF expires_delta # 0
                  THEN utcnow(clock) + expires_delta
                  ELSE utcnow(clock) + ACCESS_TOKEN_EXPIRE_MINUTES
    IN  jwt_encode([sub |-> data.sub, user_id |-> data.user_id, exp |-> expire,
                    iat |-> utcnow(clock), jti |-> jti, iss |-> "url-shortener"],
                   SECRET_KEY)

\* datetime.fromtimestamp: the naive local time of a UTC timestamp.
fromtimestamp(timestamp, offset) == timestamp + offset

CouldNotValidate ==
    [status |-> HTTP_401_UNAUTHORIZED, detail |-> "Could not validate credentials"]

TokenExpired ==
    [status |-> HTTP_401_UNAUTHORIZED, detail |-> "Token expired"]

\* verify_token: status 200 stands for the payload being returned.
verify_token(token, clock, offset) ==
    IF ~jwt_decode(token, SECRET_KEY, clock)
    THEN CouldNotValidate
    ELSE IF "sub" \notin DOMAIN token.payload \/ "user_id" \notin DOMAIN token.payload
         THEN CouldNotValidate
         ELSE IF /\ "iat" \in DOMAIN token.payload
                 /\ token.payload.iat # 0
                 /\ utcnow(clock) > fromtimestamp(token.payload.iat, offset) + MAX_TOKEN_AGE
              THEN TokenExpired
              ELSE [status |-> HTTP_200_OK, detail |-> ""]

\* The line verify_token logs when jose refuses the token: the text of the
\* JWTError.
verify_token_log(token, clock) ==
    IF jwt_decode(token, SECRET_KEY, clock) THEN {}
    ELSE IF token.sig = <<>> THEN {<<"JWT validation failed: ", "Not enough segments">>}
    ELSE IF token.sig # hs256(SECRET_KEY, token.payload)
    THEN {<<"JWT validation failed: ", "Signature verification failed.">>}
    ELSE {<<"JWT validation failed: ", "Signature has expired.">>}

\* The line verify_password logs when checkpw raises on one of the rows.
verify_password_log(rows) ==
    IF \E row \in rows : row.hashed_password.alg # "bcrypt"
    THEN {<<"Password verification error: ", "Invalid salt">>} ELSE {}

(***************************************************************************)
(* AuthGateway helpers.                                                    *)
(***************************************************************************)
\* What an HTTP client sees of a response.
Visible(resp) == [status |-> resp.status, detail |-> resp.detail, body |-> resp.body]

authenticate_user_any_password(table, username, password) ==
    IF UsersByUsername(table, username) = {}
    THEN {{}}
    ELSE {{user} : user \in UsersByUsername(table, username)}

\* authenticate_user: the outcomes of the call, {} standing for False and
\* {row} for the account returned (first() may pick any matching row).
authenticate_user(table, username, password) ==
    IF UsersByUsername(table, username) = {}
    THEN {{}}
    ELSE {IF verify_password(password, user.hashed_password) THEN {user} ELSE {} :
            user \in UsersByUsername(table, username)}

new_user_as_given(id, username, email, hashed_password) ==
    [id |-> id, username |-> username, email |-> email,
     hashed_password |-> hashed_password,
     is_active |-> TRUE, is_admin |-> IS_ADMIN_COLUMN_DEFAULT]

\* The User(...) built by register; is_active takes the ORM default and
\* is_admin the default of the column.
new_user(id, username, email, hashed_password) ==
    [id |-> id, username |-> lower(username), email |-> lower(email),
     hashed_password |-> hashed_password,
     is_active |-> TRUE, is_admin |-> IS_ADMIN_COLUMN_DEFAULT]

get_current_user_no_active_check(token, table, clock, offset) ==
    LET token_data == verify_token(token, clock, offset)
        found == IF token_data.status = HTTP_200_OK
                 THEN UsersById(table, token.payload.user_id) ELSE {}
    IN  IF token_data.status # HTTP_200_OK
        THEN [status |-> token_data.status, detail |-> token_data.detail, body |-> {}]
        ELSE IF found = {}
             THEN [status |-> HTTP_401_UNAUTHORIZED,
                   detail |-> "User not found or inactive", body |-> {}]
             ELSE [status |-> HTTP_200_OK, detail |-> "", body |-> found]

\* get_current_user: the account returned, or the rejection raised.
get_current_user(token, table, clock, offset) ==
    LET token_data == verify_token(token, clock, offset)
        found == IF token_data.status = HTTP_200_OK
                 THEN UsersById(table, token.payload.user_id) ELSE {}
    IN  IF token_data.status # HTTP_200_OK
        THEN [status |-> token_data.status, detail |-> token_data.detail, body |-> {}]
        ELSE IF found = {} \/ \A user \in found : ~user.is_active
             THEN [status |-> HTTP_401_UNAUTHORIZED,
                   detail |-> "User not found or inactive", body |-> {}]
             ELSE [status |-> HTTP_200_OK, detail |-> "", body |-> found]

\* Consecutive wrong-password logins of a source as its client has seen
\* them: n counts them up to the threshold, at is the time of the one that
\* reached it.  A login naming no account leaves the count as it is, an
\* accepted login resets it.  No handler reads it.
StreakAfter(streak, outcome, clock) ==
    LET base == IF streak.n >= MAX_FAILED_ATTEMPTS /\ clock > streak.at + LOCKOUT_DURATION
                THEN 0 ELSE streak.n
    IN  IF outcome = "accepted" THEN [n |-> 0, at |-> 0]
        ELSE IF outcome = "unknown" \/ base >= MAX_FAILED_ATTEMPTS THEN streak
        ELSE [n |-> base + 1,
              at |-> IF base + 1 = MAX_FAILED_ATTEMPTS THEN clock ELSE 0]

(***************************************************************************)
(* Initial state: the users table as the server finds it and the local     *)
(* time zone of the host; nothing recorded, nothing issued.                *)
(***************************************************************************)
NoRequest == [op |-> "none"]

NoResponse == [op |-> "none", status |-> 0, detail |-> "", body |-> {}, calls |-> <<>>]

InitStore(tables, offsets, fk_actions) ==
    /\ users \in tables
    /\ next_id = 3
    /\ url_mappings = {}
    /\ on_delete \in fk_actions
    /\ output = {}
    /\ failed_login_attempts = [s \in {} |-> 0]
    /\ tokens = {}
    /\ now = 1
    /\ tz \in offsets
    /\ request = NoRequest
    /\ response = NoResponse
    /\ login_streak = [s \in Sources |-> [n |-> 0, at |-> 0]]

InitWith(tables, offsets) == InitStore(tables, offsets, {"NO ACTION"})

Init == InitStore(InitialTables, TzOffsets, FkActions)

(***************************************************************************)
(* POST /api/register                                                      *)
(***************************************************************************)
Register(username, email, password, salt) ==
    /\ request' = [op |-> "register", username |-> username, email |-> email,
                   password |-> password]
    /\ IF ~(validate_username(username) /\ validate_password(password))
       THEN /\ response' = [op |-> "register", status |-> HTTP_422_UNPROCESSABLE_ENTITY,
                            detail |-> "validation error", body |-> {}, calls |-> <<>>]
            /\ output' = {}
            /\ UNCHANGED <<users, next_id>>
       ELSE IF UsersByUsername(users, username) # {}
       THEN /\ response' = [op |-> "register", status |-> HTTP_400_BAD_REQUEST,
                            detail |-> "Username already registered", body |-> {},
                            calls |-> <<>>]
            /\ output' = {}
            /\ UNCHANGED <<users, next_id>>
       ELSE IF UsersByEmail(users, email) # {}
       THEN /\ response' = [op |-> "register", status |-> HTTP_400_BAD_REQUEST,
                            detail |-> "Email already registered", body |-> {},
                            calls |-> <<>>]
            /\ output' = {}
            /\ UNCHANGED <<users, next_id>>
       ELSE /\ Cardinality(users) < MaxUsers
            /\ users' = users \cup
                   {new_user(next_id, username, email, get_password_hash(password, salt))}
            /\ next_id' = next_id + 1
            /\ output' = {<<"New user registered: ", lower(username)>>}
            \* the response is built from user.is_admin, which User does not map
            /\ response' = IF "is_admin" \in UserColumns
                           THEN [op |-> "register", status |-> HTTP_200_OK, detail |-> "",
                                 body |-> UsersById(users', next_id),
                                 calls |-> <<"get_password_hash">>]
                           ELSE [op |-> "register",
                                 status |-> HTTP_500_INTERNAL_SERVER_ERROR,
                                 detail |-> "Internal Server Error", body |-> {},
                                 calls |-> <<"get_password_hash">>]
    /\ UNCHANGED <<url_mappings, on_delete, failed_login_attempts, tokens, now, tz, login_streak>>

(***************************************************************************)
(* POST /api/login                                                         *)
(***************************************************************************)
Login(source, username, password) ==
    /\ request' = [op |-> "login", source |-> source, username |-> username,
                   password |-> password]
    /\ \E user \in authenticate_user(users, username, password) :
         LET calls == IF UsersByUsername(users, username) = {}
                      THEN <<"authenticate_user">>
                      ELSE <<"authenticate_user", "verify_password">>
         IN  IF user = {}
             THEN /\ response' = [op |-> "login", status |-> HTTP_401_UNAUTHORIZED,
                                  detail |-> "Incorrect username or password",
                                  body |-> {}, calls |-> calls]
                  /\ login_streak' = [login_streak EXCEPT
                                        ![source] = StreakAfter(@,
                                            IF UsersByUsername(users, username) = {}
                                            THEN "unknown" ELSE "wrong_password",
                                            now)]
                  /\ output' = verify_password_log(UsersByUsername(users, username))
                  /\ UNCHANGED tokens
             ELSE \E account \in user :
                  LET access_token ==
                        create_access_token([sub |-> account.username,
                                             user_id |-> account.id],
                                            ACCESS_TOKEN_EXPIRE_MINUTES, now, token_hex(tokens))
                  IN  /\ Cardinality(tokens \cup {access_token}) <= MaxTokens
                      /\ tokens' = tokens \cup {access_token}
                      /\ response' = [op |-> "login", status |-> HTTP_200_OK,
                                      detail |-> "", body |-> {access_token},
                                      calls |-> Append(calls, "create_access_token")]
                      /\ output' = {<<"User logged in: ", account.username>>}
                      /\ login_streak' = [login_streak EXCEPT
                                            ![source] = StreakAfter(@, "accepted", now)]
    /\ UNCHANGED <<url_mappings, on_delete, users, next_id, failed_login_attempts, now, tz>>

(***************************************************************************)
(* Bearer tokens a client can present: the issued ones, an issued one with *)
(* its account reference changed (signature kept, or redone with a key of  *)
(* the client's), and a string that is no token.                           *)
(***************************************************************************)
Tampered(token, id) == [payload |-> [token.payload EXCEPT !.user_id = id], sig |-> token.sig]

Resigned(token, id) == jwt_encode([token.payload EXCEPT !.user_id = id], "client-key")

Garbage == [payload |-> [raw |-> "garbage"], sig |-> <<>>]

Forged(issued, ids) ==
    {Tampered(t, id) : t \in issued, id \in ids} \cup
    {Resigned(t, id) : t \in issued, id \in ids}

TokenInputs == tokens \cup Forged(tokens, {r.id : r \in users}) \cup {Garbage}

(***************************************************************************)
(* get_current_user, the guard of every bearer-authenticated request.      *)
(***************************************************************************)
Authorize(token) ==
    /\ request' = [op |-> "authorize", token |-> token]
    /\ response' = [op |-> "authorize", calls |-> <<"verify_token">>]
                   @@ get_current_user(token, users, now, tz)
    /\ output' = verify_token_log(token, now)
    /\ UNCHANGED <<url_mappings, on_delete, users, next_id, failed_login_attempts, tokens, now, tz, login_streak>>

(***************************************************************************)
(* create_access_token called for an account with a ttl of the caller's.   *)
(***************************************************************************)
IssueToken(account, expires_delta) ==
    LET access_token == create_access_token([sub |-> account.username,
                                             user_id |-> account.id],
                                            expires_delta, now, token_hex(tokens))
    IN  /\ Cardinality(tokens \cup {access_token}) <= MaxTokens
        /\ access_token \notin tokens
        /\ tokens' = tokens \cup {access_token}
        /\ request' = [op |-> "issue", user_id |-> account.id,
                       expires_delta |-> expires_delta]
        /\ response' = [op |-> "issue", status |-> HTTP_200_OK, detail |-> "",
                        body |-> {access_token}, calls |-> <<"create_access_token">>]
        /\ output' = {}
        /\ UNCHANGED <<url_mappings, on_delete, users, next_id, failed_login_attempts, now, tz, login_streak>>

(***************************************************************************)
(* The three operations of the failed-login tracker.                       *)
(***************************************************************************)
CheckRateLimit(client_ip) ==
    LET result == check_rate_limit(failed_login_attempts, client_ip, now)
    IN  /\ failed_login_attempts' = result.attempts
        /\ request' = [op |-> "check_rate_limit", source |-> client_ip]
        /\ response' = [op |-> "check_rate_limit", status |-> HTTP_200_OK, detail |-> "",
                        body |-> {result.allowed}, calls |-> <<>>]
        /\ output' = {}
        /\ UNCHANGED <<url_mappings, on_delete, users, next_id, tokens, now, tz, login_streak>>

RecordFailedAttempt(client_ip) ==
    /\ client_ip \in DOMAIN failed_login_attempts
          => failed_login_attempts[client_ip].count < MaxCount
    /\ failed_login_attempts' = record_failed_attempt(failed_login_attempts, client_ip, now)
    /\ request' = [op |-> "record_failed_attempt", source |-> client_ip]
    /\ response' = [op |-> "record_failed_attempt", status |-> HTTP_200_OK, detail |-> "",
                    body |-> {}, calls |-> <<>>]
    /\ output' = IF failed_login_attempts'[client_ip].count >= MAX_FAILED_ATTEMPTS
                 THEN {<<"SECURITY: IP locked out: ", client_ip>>} ELSE {}
    /\ UNCHANGED <<url_mappings, on_delete, users, next_id, tokens, now, tz, login_streak>>

ClearFailedAttempts(client_ip) ==
    /\ failed_login_attempts' = clear_failed_attempts(failed_login_attempts, client_ip)
    /\ request' = [op |-> "clear_failed_attempts", source |-> client_ip]
    /\ response' = [op |-> "clear_failed_attempts", status |-> HTTP_200_OK, detail |-> "",
                    body |-> {}, calls |-> <<>>]
    /\ output' = {}
    /\ UNCHANGED <<url_mappings, on_delete, users, next_id, tokens, now, tz, login_streak>>

(***************************************************************************)
(* replace_admin.py: the default admin is deleted and the new admin        *)
(* inserted in one transaction.  When 'casi' exists already the script     *)
(* returns before the commit, and when a statement raises (the delete      *)
(* against a NO ACTION foreign key, the insert against the unique email)   *)
(* it rolls back: either way nothing is changed.                           *)
(***************************************************************************)
CasiRow(id, salt) ==
    [id |-> id, username |-> "casi", email |-> "casi.lehtovuori@gmail.com",
     hashed_password |-> get_password_hash("casi42", salt),
     is_active |-> TRUE, is_admin |-> TRUE]

delete_users_no_foreign_key(table, urls, deleted, fk_action) ==
    [ok |-> TRUE, users |-> table \ deleted, url_mappings |-> urls]

\* DELETE FROM users WHERE ...: the two tables after the statement, or the
\* IntegrityError of a foreign key that takes no action.
delete_users(table, urls, deleted, fk_action) ==
    LET owned == {u \in urls : \E r \in deleted : u.user_id = r.id}
    IN  IF owned # {} /\ fk_action = "NO ACTION"
        THEN [ok |-> FALSE, users |-> table, url_mappings |-> urls]
        ELSE [ok |-> TRUE, users |-> table \ deleted, url_mappings |-> urls \ owned]

replace_admin(table, urls, id, salt, fk_action) ==
    LET deleted == delete_users(table, urls, {r \in table : r.username = "admin"}, fk_action)
        unchanged == [users |-> table, url_mappings |-> urls]
        banner == {<<"=== Replacing Admin User ===">>, <<"Removing default admin user...">>}
        removed == IF deleted.users # table
                   THEN {<<"Default admin user removed">>}
                   ELSE {<<"Default admin user not found (may have been removed already)">>}
    IN  IF ~deleted.ok
        THEN unchanged @@ [ok |-> FALSE, output |-> banner \cup {<<"Error: ", "IntegrityError">>}]
        ELSE IF \E r \in deleted.users : r.username = "casi"
        THEN unchanged @@ [ok |-> FALSE,
                           output |-> banner \cup removed \cup {<<"User 'casi' already exists!">>}]
        ELSE IF \E r \in deleted.users : r.email = "casi.lehtovuori@gmail.com"
        THEN unchanged @@ [ok |-> FALSE,
                           output |-> banner \cup removed \cup
                                      {<<"Creating new admin user...">>,
                                        <<"Error: ", "IntegrityError">>}]
        ELSE [users |-> deleted.users \cup {CasiRow(id, salt)},
              url_mappings |-> deleted.url_mappings,
              ok |-> TRUE,
              output |-> banner \cup removed \cup
                         {<<"Creating new admin user...">>,
                           <<"New admin user created successfully!">>,
                           <<"  Username: ", "casi">>,
                           <<"  Password: ", "casi42">>,
                           <<"  Email: ", "casi.lehtovuori@gmail.com">>}]

ReplaceAdmin(salt) ==
    LET result == replace_admin(users, url_mappings, next_id, salt, on_delete)
    IN  /\ Cardinality(result.users) <= MaxUsers
        /\ users' = result.users
        /\ url_mappings' = result.url_mappings
        /\ next_id' = IF result.ok THEN next_id + 1 ELSE next_id
        /\ request' = [op |-> "replace_admin"]
        \* status is the exit status; body shows the rows the run removed
        /\ response' = [op |-> "replace_admin",
                        status |-> IF result.ok THEN 0 ELSE 1,
                        detail |-> "",
                        body |-> (users \ result.users) \cup
                                 (url_mappings \ result.url_mappings),
                        calls |-> <<"get_password_hash">>]
        /\ output' = result.output
        /\ UNCHANGED <<on_delete, failed_login_attempts, tokens, now, tz, login_streak>>

(***************************************************************************)
(* The url_mappings table and the handlers that write it.  A row holds     *)
(* its short code (unique in the table), the URL, the owner's id, the      *)
(* number of redirects counted so far and the moment it expires: the empty *)
(* set when it never does.                                                 *)
(***************************************************************************)
NoExpiry == {}

new_url_mapping(original_url, short_code, user_id, expires_at) ==
    [short_code |-> short_code, original_url |-> original_url, user_id |-> user_id,
     click_count |-> 0, expires_at |-> expires_at]

UrlsByShortCode(urls, short_code) == {u \in urls : u.short_code = short_code}
UrlsByUser(urls, user_id) == {u \in urls : u.user_id = user_id}

\* URLCreate.validate_custom_code; "" stands for no custom code.
validate_custom_code(v) ==
    v # "" => ~(Len(v) < MIN_CUSTOM_CODE_LENGTH \/ Len(v) > MAX_CUSTOM_CODE_LENGTH)

\* generate_short_code, called until the code is not in the table.
GeneratedCodes == {"abc", "xyz"}

InternalServerError ==
    [status |-> HTTP_500_INTERNAL_SERVER_ERROR, detail |-> "Internal Server Error",
     body |-> {}]

verify_api_key(x_api_key) ==
    IF x_api_key # API_KEY
    THEN [status |-> HTTP_401_UNAUTHORIZED, detail |-> "Invalid API key", body |-> {}]
    ELSE [status |-> HTTP_200_OK, detail |-> "", body |-> {}]

\* get_admin_user over the outcome of get_current_user: the attribute
\* is_admin is read from the User instance.
get_admin_user(current_user) ==
    IF current_user.status # HTTP_200_OK THEN current_user
    ELSE IF "is_admin" \notin UserColumns THEN InternalServerError
    ELSE IF \E user \in current_user.body : ~user.is_admin
    THEN [status |-> HTTP_403_FORBIDDEN, detail |-> "Admin access required", body |-> {}]
    ELSE current_user

shorten_for_no_code_check(urls, owner_id, custom_code, expires_at, limit) ==
    IF Cardinality(UrlsByUser(urls, owner_id)) >= limit
    THEN {[status |-> HTTP_429_TOO_MANY_REQUESTS, detail |-> "Maximum URLs exceeded",
           body |-> {}, url_mappings |-> urls]}
    ELSE {[status |-> HTTP_200_OK, detail |-> "",
           body |-> {new_url_mapping("https://example.com", short_code, owner_id, expires_at)},
           url_mappings |-> urls \cup
               {new_url_mapping("https://example.com", short_code, owner_id, expires_at)}] :
            short_code \in IF custom_code # "" THEN {custom_code} ELSE GeneratedCodes}

\* The part of shorten_url and bot_shorten_url after the owner is known.
shorten_for(urls, owner_id, custom_code, expires_at, limit) ==
    IF Cardinality(UrlsByUser(urls, owner_id)) >= limit
    THEN {[status |-> HTTP_429_TOO_MANY_REQUESTS, detail |-> "Maximum URLs exceeded",
           body |-> {}, url_mappings |-> urls]}
    ELSE IF custom_code # ""
    THEN IF UrlsByShortCode(urls, custom_code) # {}
         THEN {[status |-> HTTP_400_BAD_REQUEST, detail |-> "Custom code already exists",
                body |-> {}, url_mappings |-> urls]}
         ELSE {[status |-> HTTP_200_OK, detail |-> "",
                body |-> {new_url_mapping("https://example.com", custom_code, owner_id,
                                        expires_at)},
                url_mappings |-> urls \cup
                    {new_url_mapping("https://example.com", custom_code, owner_id,
                                        expires_at)}]}
    ELSE {[status |-> HTTP_200_OK, detail |-> "",
           body |-> {new_url_mapping("https://example.com", short_code, owner_id, expires_at)},
           url_mappings |-> urls \cup
               {new_url_mapping("https://example.com", short_code, owner_id, expires_at)}] :
            short_code \in {c \in GeneratedCodes : UrlsByShortCode(urls, c) = {}}}

(***************************************************************************)
(* POST /api/shorten                                                       *)
(***************************************************************************)
ShortenUrl(token, custom_code, expires_at) ==
    LET current_user == get_current_user(token, users, now, tz)
    IN  /\ request' = [op |-> "shorten", token |-> token, custom_code |-> custom_code]
        /\ IF current_user.status # HTTP_200_OK
           THEN /\ response' = [op |-> "shorten", calls |-> <<"verify_token">>] @@ current_user
                /\ output' = verify_token_log(token, now)
                /\ UNCHANGED url_mappings
           ELSE IF ~validate_custom_code(custom_code)
           THEN /\ response' = [op |-> "shorten", status |-> HTTP_422_UNPROCESSABLE_ENTITY,
                                detail |-> "validation error", body |-> {},
                                calls |-> <<"verify_token">>]
                /\ output' = {}
                /\ UNCHANGED url_mappings
           ELSE \E user \in current_user.body :
                \E result \in shorten_for(url_mappings, user.id, custom_code, expires_at,
                                          MAX_URLS_PER_USER) :
                   /\ response' = [op |-> "shorten", status |-> result.status,
                                   detail |-> result.detail, body |-> result.body,
                                   calls |-> <<"verify_token">>]
                   /\ url_mappings' = result.url_mappings
                   /\ output' = {}
        /\ UNCHANGED <<users, next_id, on_delete, failed_login_attempts, tokens, now, tz,
                       login_streak>>

(***************************************************************************)
(* POST /api/bot/shorten: the owner is the account 'slackbot', which the   *)
(* handler builds with keyword arguments User does not accept.             *)
(***************************************************************************)
BotShorten(x_api_key, custom_code, expires_at) ==
    LET bot_user == {r \in users : r.username = "slackbot"}
    IN  /\ request' = [op |-> "bot_shorten", x_api_key |-> x_api_key,
                       custom_code |-> custom_code]
        /\ IF verify_api_key(x_api_key).status # HTTP_200_OK
           THEN /\ response' = [op |-> "bot_shorten", calls |-> <<>>]
                                @@ verify_api_key(x_api_key)
                /\ output' = {}
                /\ UNCHANGED <<users, next_id, url_mappings>>
           ELSE IF ~validate_custom_code(custom_code)
           THEN /\ response' = [op |-> "bot_shorten",
                                status |-> HTTP_422_UNPROCESSABLE_ENTITY,
                                detail |-> "validation error", body |-> {}, calls |-> <<>>]
                /\ output' = {}
                /\ UNCHANGED <<users, next_id, url_mappings>>
           ELSE IF bot_user = {}
           THEN IF {"password_hash", "is_admin"} \subseteq UserColumns
                THEN \E salt \in Salts :
                     /\ Cardinality(users) < MaxUsers
                     /\ users' = users \cup
                            {[id |-> next_id, username |-> "slackbot",
                              email |-> "bot@coventur.es",
                              hashed_password |-> get_password_hash("bot-no-login", salt),
                              is_active |-> TRUE, is_admin |-> FALSE]}
                     /\ next_id' = next_id + 1
                     /\ \E result \in shorten_for(url_mappings, next_id, custom_code, expires_at,
                                                  MAX_URLS_PER_BOT) :
                          /\ response' = [op |-> "bot_shorten", status |-> result.status,
                                          detail |-> result.detail, body |-> result.body,
                                          calls |-> <<"get_password_hash">>]
                          /\ url_mappings' = result.url_mappings
                          /\ output' = {<<"Bot created short URL: ", u.short_code>> :
                                          u \in result.body}
                ELSE /\ response' = [op |-> "bot_shorten", calls |-> <<"get_password_hash">>]
                                     @@ InternalServerError
                     /\ output' = {}
                     /\ UNCHANGED <<users, next_id, url_mappings>>
           ELSE \E owner \in bot_user :
                \E result \in shorten_for(url_mappings, owner.id, custom_code, expires_at,
                                          MAX_URLS_PER_BOT) :
                   /\ response' = [op |-> "bot_shorten", status |-> result.status,
                                   detail |-> result.detail, body |-> result.body,
                                   calls |-> <<>>]
                   /\ url_mappings' = result.url_mappings
                   /\ output' = {<<"Bot created short URL: ", u.short_code>> :
                                   u \in result.body}
                   /\ UNCHANGED <<users, next_id>>
        /\ UNCHANGED <<on_delete, failed_login_attempts, tokens, now, tz, login_streak>>

(***************************************************************************)
(* Slack /transmute (slack_bot.py): the owner is the account               *)
(* 'slackbot-<user_name>', looked up and stored as Slack sent the name,    *)
(* with a placeholder in place of a password hash.  The account is         *)
(* committed before the URL is inserted; a short code already in the table *)
(* makes that insert raise and only the URL is rolled back.                *)
(***************************************************************************)
SLACK_PLACEHOLDER == [alg |-> "none", text |-> "slack-bot-no-password"]

slack_bot_user(id, bot_username) ==
    [id |-> id, username |-> bot_username, email |-> bot_username \o "@slack.bot",
     hashed_password |-> SLACK_PLACEHOLDER,
     is_active |-> TRUE, is_admin |-> IS_ADMIN_COLUMN_DEFAULT]

SlackTransmute(user_name, custom_code) ==
    LET bot_username == "slackbot-" \o user_name
        received == <<"Slack command received: ", "/transmute", user_name>>
        found == {r \in users : r.username = bot_username}
        failed == [op |-> "transmute", status |-> HTTP_200_OK,
                   detail |-> "Failed to transmute URL", body |-> {}, calls |-> <<>>]
    IN  /\ request' = [op |-> "transmute", user_name |-> user_name,
                       custom_code |-> custom_code]
        /\ IF found = {} /\ \E r \in users : r.email = bot_username \o "@slack.bot"
           THEN /\ response' = failed
                /\ output' = {received, <<"Error creating short URL: ", "IntegrityError">>}
                /\ UNCHANGED <<users, next_id, url_mappings>>
           ELSE /\ IF found = {}
                   THEN /\ Cardinality(users) < MaxUsers
                        /\ users' = users \cup {slack_bot_user(next_id, bot_username)}
                        /\ next_id' = next_id + 1
                   ELSE UNCHANGED <<users, next_id>>
                /\ \E bot_user \in {r \in users' : r.username = bot_username} :
                   \E short_code \in IF custom_code # "" THEN {custom_code}
                                     ELSE GeneratedCodes :
                      IF UrlsByShortCode(url_mappings, short_code) # {}
                      THEN /\ response' = failed
                           /\ output' = {received,
                                         <<"Error creating short URL: ", "IntegrityError">>}
                           /\ UNCHANGED url_mappings
                      ELSE /\ url_mappings' = url_mappings \cup
                                  {new_url_mapping("https://example.com", short_code,
                                                   bot_user.id, NoExpiry)}
                           /\ response' = [op |-> "transmute", status |-> HTTP_200_OK,
                                           detail |-> "URL Transmuted",
                                           body |-> UrlsByShortCode(url_mappings', short_code),
                                           calls |-> <<>>]
                           /\ output' = {received}
        /\ UNCHANGED <<on_delete, failed_login_attempts, tokens, now, tz, login_streak>>

(***************************************************************************)
(* GET /api/metrics, guarded by the API key alone.                         *)
(***************************************************************************)
Metrics(x_api_key) ==
    /\ request' = [op |-> "metrics", x_api_key |-> x_api_key]
    /\ response' = IF verify_api_key(x_api_key).status # HTTP_200_OK
                   THEN [op |-> "metrics", calls |-> <<>>] @@ verify_api_key(x_api_key)
                   ELSE [op |-> "metrics", status |-> HTTP_200_OK, detail |-> "",
                         body |-> {[total_urls |-> Cardinality(url_mappings)]},
                         calls |-> <<>>]
    /\ output' = {}
    /\ UNCHANGED <<users, next_id, url_mappings, on_delete, failed_login_attempts, tokens,
                   now, tz, login_streak>>

(***************************************************************************)
(* get_admin_user, the guard of the /api/admin endpoints.                  *)
(***************************************************************************)
GetAdminUser(token) ==
    /\ request' = [op |-> "get_admin_user", token |-> token]
    /\ response' = [op |-> "get_admin_user", calls |-> <<"verify_token">>]
                   @@ get_admin_user(get_current_user(token, users, now, tz))
    /\ output' = verify_token_log(token, now)
    /\ UNCHANGED <<users, next_id, url_mappings, on_delete, failed_login_attempts, tokens,
                   now, tz, login_streak>>

(***************************************************************************)
(* The /api/admin endpoints.  Each runs its body only when get_admin_user  *)
(* has returned the caller.                                                *)
(***************************************************************************)
\* AdminUserCreate.validate_username: hyphens are allowed here.
validate_admin_username(v) ==
    /\ ~(Len(v) < MIN_USERNAME_LENGTH \/ Len(v) > MAX_USERNAME_LENGTH)
    /\ v \notin (NonWordStrings \ {"a-b"})

AdminRejection(op, token) ==
    /\ response' = [op |-> op, calls |-> <<"verify_token">>]
                   @@ get_admin_user(get_current_user(token, users, now, tz))
    /\ output' = verify_token_log(token, now)

create_user(token, username, email, password, is_admin, salt) ==
    LET admin_user == get_admin_user(get_current_user(token, users, now, tz))
    IN  /\ request' = [op |-> "create_user", token |-> token, username |-> username,
                       email |-> email, password |-> password, is_admin |-> is_admin]
        /\ IF admin_user.status # HTTP_200_OK
           THEN /\ AdminRejection("create_user", token)
                /\ UNCHANGED <<users, next_id>>
           ELSE IF ~(validate_admin_username(username) /\ validate_password(password))
           THEN /\ response' = [op |-> "create_user",
                                status |-> HTTP_422_UNPROCESSABLE_ENTITY,
                                detail |-> "validation error", body |-> {},
                                calls |-> <<"verify_token">>]
                /\ output' = {}
                /\ UNCHANGED <<users, next_id>>
           ELSE IF UsersByUsername(users, username) \cup UsersByEmail(users, email) # {}
           THEN /\ response' = [op |-> "create_user", status |-> HTTP_400_BAD_REQUEST,
                                detail |-> "User with this username or email already exists",
                                body |-> {}, calls |-> <<"verify_token">>]
                /\ output' = {}
                /\ UNCHANGED <<users, next_id>>
           ELSE /\ Cardinality(users) < MaxUsers
                /\ users' = users \cup
                       {[new_user(next_id, username, email, get_password_hash(password, salt))
                           EXCEPT !.is_admin = is_admin]}
                /\ next_id' = next_id + 1
                /\ response' = [op |-> "create_user", status |-> HTTP_200_OK, detail |-> "",
                                body |-> UsersById(users', next_id),
                                calls |-> <<"verify_token", "get_password_hash">>]
                /\ output' = {<<"Admin created user: ", lower(username)>>}
        /\ UNCHANGED <<url_mappings, on_delete, failed_login_attempts, tokens, now, tz,
                       login_streak>>

get_all_users(token) ==
    LET admin_user == get_admin_user(get_current_user(token, users, now, tz))
    IN  /\ request' = [op |-> "get_all_users", token |-> token]
        /\ IF admin_user.status # HTTP_200_OK
           THEN AdminRejection("get_all_users", token)
           ELSE /\ response' = [op |-> "get_all_users", status |-> HTTP_200_OK,
                                detail |-> "", body |-> users, calls |-> <<"verify_token">>]
                /\ output' = {}
        /\ UNCHANGED <<users, next_id, url_mappings, on_delete, failed_login_attempts,
                       tokens, now, tz, login_streak>>

get_all_urls(token) ==
    LET admin_user == get_admin_user(get_current_user(token, users, now, tz))
    IN  /\ request' = [op |-> "get_all_urls", token |-> token]
        /\ IF admin_user.status # HTTP_200_OK
           THEN AdminRejection("get_all_urls", token)
           ELSE /\ response' = [op |-> "get_all_urls", status |-> HTTP_200_OK,
                                detail |-> "", body |-> url_mappings,
                                calls |-> <<"verify_token">>]
                /\ output' = {}
        /\ UNCHANGED <<users, next_id, url_mappings, on_delete, failed_login_attempts,
                       tokens, now, tz, login_streak>>

\* delete_user deletes the account's URLs, then the account, in one commit.
delete_user(token, user_id) ==
    LET admin_user == get_admin_user(get_current_user(token, users, now, tz))
        answer(code, text) == [op |-> "delete_user", status |-> code, detail |-> text,
                               body |-> {}, calls |-> <<"verify_token">>]
    IN  /\ request' = [op |-> "delete_user", token |-> token, user_id |-> user_id]
        /\ IF admin_user.status # HTTP_200_OK
           THEN /\ AdminRejection("delete_user", token)
                /\ UNCHANGED <<users, url_mappings>>
           ELSE IF \E caller \in admin_user.body : caller.id = user_id
           THEN /\ response' = answer(HTTP_400_BAD_REQUEST, "Cannot delete your own account")
                /\ output' = {}
                /\ UNCHANGED <<users, url_mappings>>
           ELSE IF UsersById(users, user_id) = {}
           THEN /\ response' = answer(HTTP_404_NOT_FOUND, "User not found")
                /\ output' = {}
                /\ UNCHANGED <<users, url_mappings>>
           ELSE /\ url_mappings' = url_mappings \ UrlsByUser(url_mappings, user_id)
                /\ users' = users \ UsersById(users, user_id)
                /\ response' = answer(HTTP_200_OK, "User and all associated URLs deleted")
                /\ output' = {<<"Admin deleted user: ", r.username>> :
                                r \in UsersById(users, user_id)}
        /\ UNCHANGED <<next_id, on_delete, failed_login_attempts, tokens, now, tz,
                       login_streak>>

(***************************************************************************)
(* cleanup_users.py: the URLs of the accounts that are not admins are      *)
(* deleted, then those accounts, in one commit; the script reads is_admin  *)
(* from User before it deletes anything.                                   *)
(***************************************************************************)
cleanup_non_admin_users ==
    LET non_admin_users == {r \in users : ~r.is_admin}
        listing == {<<"Current users in database:">>}
    IN  /\ request' = [op |-> "cleanup_users"]
        /\ IF "is_admin" \notin UserColumns
           THEN /\ response' = [op |-> "cleanup_users", status |-> 1, detail |-> "",
                                body |-> {}, calls |-> <<>>]
                /\ output' = listing \cup {<<"Error occurred: ", "AttributeError">>}
                /\ UNCHANGED <<users, url_mappings>>
           ELSE /\ url_mappings' = {u \in url_mappings :
                                      \A r \in non_admin_users : u.user_id # r.id}
                /\ users' = users \ non_admin_users
                /\ response' = [op |-> "cleanup_users", status |-> 0, detail |-> "",
                                body |-> {}, calls |-> <<>>]
                /\ output' = listing \cup
                             {<<"Removing user: ", r.username>> : r \in non_admin_users}
        /\ UNCHANGED <<next_id, on_delete, failed_login_attempts, tokens, now, tz,
                       login_streak>>

(***************************************************************************)
(* get_password_hash and verify_password called on their own.              *)
(***************************************************************************)
HashPassword(password, salt, long_password) ==
    /\ request' = [op |-> "get_password_hash", password |-> password, salt |-> salt]
    /\ response' = IF Len(password) > BCRYPT_MAX_PASSWORD_BYTES /\ long_password = "raise"
                   THEN [op |-> "get_password_hash",
                         status |-> HTTP_500_INTERNAL_SERVER_ERROR,
                         detail |-> "ValueError", body |-> {}, calls |-> <<>>]
                   ELSE [op |-> "get_password_hash", status |-> HTTP_200_OK, detail |-> "",
                         body |-> {get_password_hash(password, salt)}, calls |-> <<>>]
    /\ output' = {}
    /\ UNCHANGED <<users, next_id, url_mappings, on_delete, failed_login_attempts, tokens,
                   now, tz, login_streak>>

VerifyPassword(plain_password, hashed_password, long_password) ==
    LET raised == \/ hashed_password.alg # "bcrypt"
                  \/ /\ Len(plain_password) > BCRYPT_MAX_PASSWORD_BYTES
                     /\ long_password = "raise"
    IN  /\ request' = [op |-> "verify_password", plain_password |-> plain_password,
                       hashed_password |-> hashed_password]
        /\ response' = [op |-> "verify_password", status |-> HTTP_200_OK, detail |-> "",
                        body |-> {IF raised THEN FALSE
                                  ELSE verify_password(plain_password, hashed_password)},
                        calls |-> <<>>]
        /\ output' = IF raised THEN {<<"Password verification error: ", "ValueError">>}
                     ELSE {}
        /\ UNCHANGED <<users, next_id, url_mappings, on_delete, failed_login_attempts,
                       tokens, now, tz, login_streak>>

(***************************************************************************)
(* GET /{short_code}: the redirect, open to everyone.  The click count is  *)
(* written inside a try block; when the commit raises, the handler rolls   *)
(* back and sends the redirect all the same.                               *)
(***************************************************************************)
CommitOutcomes == {"committed", "raised"}

is_expired(url_mapping, clock) ==
    \E expires_at \in url_mapping.expires_at : utcnow(clock) > expires_at

redirect_url(short_code, commit) ==
    LET found == UrlsByShortCode(url_mappings, short_code)
        received == <<"Redirect request for ", short_code>>
    IN  /\ request' = [op |-> "redirect", short_code |-> short_code]
        /\ IF found = {}
           THEN /\ response' = [op |-> "redirect", status |-> HTTP_404_NOT_FOUND,
                                detail |-> "Short URL not found", body |-> {},
                                calls |-> <<>>]
                /\ output' = {received, <<"Short URL not found: ", short_code>>}
                /\ UNCHANGED url_mappings
           ELSE \E url_mapping \in found :
                IF is_expired(url_mapping, now)
                THEN /\ response' = [op |-> "redirect", status |-> HTTP_410_GONE,
                                     detail |-> "Short URL has expired", body |-> {},
                                     calls |-> <<>>]
                     /\ output' = {received, <<"Expired short URL accessed: ", short_code>>}
                     /\ UNCHANGED url_mappings
                ELSE /\ url_mapping.click_count < MaxClicks
                     /\ IF commit = "committed"
                        THEN /\ url_mappings' = (url_mappings \ {url_mapping}) \cup
                                    {[url_mapping EXCEPT !.click_count = @ + 1]}
                             /\ output' = {received,
                                           <<"Incrementing click count for ", short_code>>,
                                           <<"Click count successfully updated for ",
                                             short_code>>}
                        ELSE /\ UNCHANGED url_mappings
                             /\ output' = {received,
                                           <<"Incrementing click count for ", short_code>>,
                                           <<"Failed to increment click count for ",
                                             short_code>>}
                     /\ response' = [op |-> "redirect",
                                     status |-> HTTP_308_PERMANENT_REDIRECT,
                                     detail |-> url_mapping.original_url, body |-> {},
                                     calls |-> IF commit = "committed" THEN <<"commit">>
                                               ELSE <<"commit", "rollback">>]
        /\ UNCHANGED <<users, next_id, on_delete, failed_login_attempts, tokens, now, tz,
                       login_streak>>

(***************************************************************************)
(* GET /api/stats/{short_code} and DELETE /api/urls/{short_code}: both     *)
(* look the row up by short code and by the caller's id.                   *)
(***************************************************************************)
owned_mapping_any_owner(urls, short_code, user_id) == UrlsByShortCode(urls, short_code)

owned_mapping(urls, short_code, user_id) ==
    {u \in urls : u.short_code = short_code /\ u.user_id = user_id}

NotFoundOrNotAuthorized ==
    [status |-> HTTP_404_NOT_FOUND, detail |-> "Short URL not found or not authorized",
     body |-> {}]

URLStats(url_mapping) ==
    [short_code |-> url_mapping.short_code, original_url |-> url_mapping.original_url,
     click_count |-> url_mapping.click_count]

get_url_stats(token, short_code) ==
    LET current_user == get_current_user(token, users, now, tz)
    IN  /\ request' = [op |-> "stats", token |-> token, short_code |-> short_code]
        /\ IF current_user.status # HTTP_200_OK
           THEN /\ response' = [op |-> "stats", calls |-> <<"verify_token">>] @@ current_user
                /\ output' = verify_token_log(token, now)
           ELSE \E user \in current_user.body :
                LET found == owned_mapping(url_mappings, short_code, user.id)
                IN  IF found = {}
                    THEN /\ response' = [op |-> "stats", calls |-> <<"verify_token">>]
                                         @@ NotFoundOrNotAuthorized
                         /\ output' = {}
                    ELSE /\ response' = [op |-> "stats", status |-> HTTP_200_OK,
                                         detail |-> "",
                                         body |-> {URLStats(u) : u \in found},
                                         calls |-> <<"verify_token">>]
                         /\ output' = {<<"Stats requested for ", u.short_code,
                                         ToString(u.click_count)>> : u \in found}
        /\ UNCHANGED <<users, next_id, url_mappings, on_delete, failed_login_attempts,
                       tokens, now, tz, login_streak>>

delete_url(token, short_code, commit) ==
    LET current_user == get_current_user(token, users, now, tz)
    IN  /\ request' = [op |-> "delete_url", token |-> token, short_code |-> short_code]
        /\ IF current_user.status # HTTP_200_OK
           THEN /\ response' = [op |-> "delete_url", calls |-> <<"verify_token">>]
                                @@ current_user
                /\ output' = verify_token_log(token, now)
                /\ UNCHANGED url_mappings
           ELSE \E user \in current_user.body :
                LET found == owned_mapping(url_mappings, short_code, user.id)
                IN  IF found = {}
                    THEN /\ response' = [op |-> "delete_url", calls |-> <<"verify_token">>]
                                         @@ NotFoundOrNotAuthorized
                         /\ output' = {}
                         /\ UNCHANGED url_mappings
                    ELSE IF commit = "committed"
                    THEN /\ url_mappings' = url_mappings \ found
                         /\ response' = [op |-> "delete_url", status |-> HTTP_200_OK,
                                         detail |-> "deleted successfully", body |-> {},
                                         calls |-> <<"verify_token", "commit">>]
                         /\ output' = {<<"Deleted URL mapping: ", short_code, " by user: ",
                                         user.username>>}
                    ELSE /\ UNCHANGED url_mappings
                         /\ response' = [op |-> "delete_url",
                                         status |-> HTTP_500_INTERNAL_SERVER_ERROR,
                                         detail |-> "Failed to delete URL", body |-> {},
                                         calls |-> <<"verify_token", "commit", "rollback">>]
                         /\ output' = {<<"Failed to delete URL mapping ", short_code>>}
        /\ UNCHANGED <<users, next_id, on_delete, failed_login_attempts, tokens, now, tz,
                       login_streak>>

(***************************************************************************)
(* Passage of time, with no request in flight.                             *)
(***************************************************************************)
TickTo(instants) ==
    /\ \E t \in instants : t > now /\ now' = t
    /\ request' = NoRequest
    /\ response' = NoResponse
    /\ output' = {}
    /\ UNCHANGED <<url_mappings, on_delete, users, next_id, failed_login_attempts, tokens, tz, login_streak>>

Tick == TickTo(Instants)

(***************************************************************************)
(* Specifications.                                                         *)
(***************************************************************************)
RegisterFrom(usernames, emails, passwords, salts) ==
    \E username \in usernames, email \in emails, password \in passwords, salt \in salts :
        Register(username, email, password, salt)

LoginFrom(sources, credentials) ==
    \E source \in sources, credential \in credentials :
        Login(source, credential[1], credential[2])

DoRegister == RegisterFrom(UsernameInputs, EmailInputs, PasswordInputs, Salts)

DoLogin == LoginFrom(Sources, (UsernameInputs \cup {"admin", "carol"})
                                  \X (PasswordInputs \cup {"admin123"}))

DoAuthorize == \E token \in TokenInputs : Authorize(token)

DoIssueToken ==
    \E account \in users, expires_delta \in TtlInputs : IssueToken(account, expires_delta)

DoCheckRateLimit == \E client_ip \in Sources : CheckRateLimit(client_ip)

DoRecordFailedAttempt == \E client_ip \in Sources : RecordFailedAttempt(client_ip)

DoClearFailedAttempts == \E client_ip \in Sources : ClearFailedAttempts(client_ip)

DoReplaceAdmin == \E salt \in Salts : ReplaceAdmin(salt)

ShortenUrlFrom(presented, codes, expiries) ==
    \E token \in presented, custom_code \in codes, expires_at \in expiries :
        ShortenUrl(token, custom_code, expires_at)

BotShortenFrom(keys, codes, expiries) ==
    \E x_api_key \in keys, custom_code \in codes, expires_at \in expiries :
        BotShorten(x_api_key, custom_code, expires_at)

SlackTransmuteFrom(names, codes) ==
    \E user_name \in names, custom_code \in codes : SlackTransmute(user_name, custom_code)

CreateUserFrom(presented, usernames, emails, passwords, salts) ==
    \E token \in presented, username \in usernames, email \in emails,
       password \in passwords, is_admin \in BOOLEAN, salt \in salts :
        create_user(token, username, email, password, is_admin, salt)

DeleteUserFrom(presented) ==
    \E token \in presented, user_id \in 1..(next_id - 1) : delete_user(token, user_id)

DoShortenUrl == ShortenUrlFrom(TokenInputs, ShortCodeInputs, {NoExpiry})

DoBotShorten == BotShortenFrom(ApiKeyInputs, ShortCodeInputs, {NoExpiry})

DoSlackTransmute == SlackTransmuteFrom(SlackNames, ShortCodeInputs)

DoMetrics == \E x_api_key \in ApiKeyInputs : Metrics(x_api_key)

DoGetAdminUser == \E token \in TokenInputs : GetAdminUser(token)

DoCreateUser == CreateUserFrom(TokenInputs, UsernameInputs, EmailInputs, PasswordInputs, Salts)

DoGetAllUsers == \E token \in TokenInputs : get_all_users(token)

DoGetAllUrls == \E token \in TokenInputs : get_all_urls(token)

DoDeleteUser == DeleteUserFrom(TokenInputs)

Next ==
    \/ DoRegister
    \/ DoLogin
    \/ DoAuthorize
    \/ DoIssueToken
    \/ DoCheckRateLimit
    \/ DoRecordFailedAttempt
    \/ DoClearFailedAttempts
    \/ DoReplaceAdmin
    \/ DoShortenUrl
    \/ DoBotShorten
    \/ DoSlackTransmute
    \/ DoMetrics
    \/ DoGetAdminUser
    \/ DoCreateUser
    \/ DoGetAllUsers
    \/ DoGetAllUrls
    \/ DoDeleteUser
    \/ cleanup_non_admin_users
    \/ Tick

Spec == Init /\ [][Next]_vars

\* Logins of two sources against the default admin, around one lockout window.
LoginInstants == {1, 2, 16, 17, 18}

LoginAdmin == LoginFrom(Sources, {"admin", "Alice"} \X {"admin123", "secret1"})

TickLogin == TickTo(LoginInstants)

NextLogin ==
    \/ LoginAdmin
    \/ TickLogin

SpecLogin == InitWith({{AdminRow}}, {0}) /\ [][NextLogin]_vars

\* The failed-login tracker, and logins of one source beside it.
LockoutInstants == {1, 16, 17, 32}

LoginOneSource == LoginFrom({"ip1"}, {"admin"} \X {"admin123", "secret1"})

TickLockout == TickTo(LockoutInstants)

NextLockout ==
    \/ LoginOneSource
    \/ DoCheckRateLimit
    \/ DoRecordFailedAttempt
    \/ DoClearFailedAttempts
    \/ TickLockout

SpecLockout == InitWith({{AdminRow}}, {0}) /\ [][NextLockout]_vars

\* Token issue and authorization, in every time zone.
TokenInstants == {1, 31, 32, 1441, 1442, 1501, 1502}

LoginKnown == LoginFrom({"ip1"}, {<<"admin", "admin123">>, <<"carol", "secret1">>})

TickToken == TickTo(TokenInstants)

NextToken ==
    \/ LoginKnown
    \/ DoIssueToken
    \/ DoAuthorize
    \/ DoReplaceAdmin
    \/ TickToken

SpecToken == InitWith({{AdminRow, InactiveRow}}, TzOffsets) /\ [][NextToken]_vars

\* Registration, every initial table.
NextAccounts ==
    \/ DoRegister
    \/ DoReplaceAdmin

SpecAccounts == InitWith(InitialTables, {0}) /\ [][NextAccounts]_vars

\* The two tables and every handler and script that creates or deletes
\* accounts, at one moment, under either foreign key.
LoginStore ==
    LoginFrom({"ip1"}, {<<"admin", "admin123">>, <<"slackbot-bob", "secret1">>,
                        <<"slackbot-bob", "slack-bot-no-password">>})

RegisterStore == RegisterFrom({"slackbot"}, {"b@x.com"}, {"secret1"}, {"s1"})

ReplaceAdminStore == ReplaceAdmin("s1")

StoreCodes == {"", "abc"}

ShortenUrlStore == ShortenUrlFrom(tokens, StoreCodes, {NoExpiry})

BotShortenStore == BotShortenFrom({API_KEY}, StoreCodes, {NoExpiry})

SlackTransmuteStore == SlackTransmuteFrom(SlackNames, StoreCodes)

DeleteUserStore == DeleteUserFrom(tokens)

NextStore ==
    \/ LoginStore
    \/ RegisterStore
    \/ ReplaceAdminStore
    \/ ShortenUrlStore
    \/ BotShortenStore
    \/ SlackTransmuteStore
    \/ DeleteUserStore
    \/ cleanup_non_admin_users

SpecStore == InitStore({{AdminRow}}, {0}, FkActions) /\ [][NextStore]_vars

\* The guards of the admin and metrics endpoints, over a fixed users table.
PresentedAdmin == tokens \cup {Garbage}

ShortenUrlAdmin == ShortenUrlFrom(tokens, {"abc"}, {NoExpiry})

GetAdminUserAdmin == \E token \in PresentedAdmin : GetAdminUser(token)

CreateUserAdmin ==
    CreateUserFrom(PresentedAdmin, {"Alice", "a-b"}, {"A@x.com"}, {"secret1", "short"}, {"s1"})

GetAllUsersAdmin == \E token \in PresentedAdmin : get_all_users(token)

GetAllUrlsAdmin == \E token \in PresentedAdmin : get_all_urls(token)

DeleteUserAdmin == DeleteUserFrom(PresentedAdmin)

NextAdmin ==
    \/ LoginKnown
    \/ ShortenUrlAdmin
    \/ GetAdminUserAdmin
    \/ CreateUserAdmin
    \/ GetAllUsersAdmin
    \/ GetAllUrlsAdmin
    \/ DeleteUserAdmin
    \/ DoMetrics

SpecAdmin == InitStore({{AdminRow, InactiveRow}}, {0}, FkActions) /\ [][NextAdmin]_vars

\* The password hasher alone, over secrets on both sides of bcrypt's limit.
HasherSecrets ==
    PasswordInputs \cup {"admin123", "casi42", "bot-no-login", LongSecret1, LongSecret2}

StoredHashes ==
    {get_password_hash(password, salt) : password \in HasherSecrets, salt \in Salts}
        \cup {SLACK_PLACEHOLDER}

DoHashPassword ==
    \E password \in HasherSecrets, salt \in Salts, long_password \in BcryptLongPassword :
        HashPassword(password, salt, long_password)

DoVerifyPassword ==
    \E plain_password \in HasherSecrets, hashed_password \in StoredHashes,
       long_password \in BcryptLongPassword :
        VerifyPassword(plain_password, hashed_password, long_password)

NextHasher ==
    \/ DoHashPassword
    \/ DoVerifyPassword

SpecHasher == InitWith({{AdminRow}}, {0}) /\ [][NextHasher]_vars

\* The URL handlers: creation with and without an expiry, the redirect,
\* statistics and deletion, with the administrator and one Slack user as
\* owners.
UrlInstants == {31, 32}

UrlCodes == {"abc", "xyz", "nnn"}

LoginUrls == LoginFrom({"ip1"}, {<<"admin", "admin123">>})

ShortenUrlUrls == ShortenUrlFrom(tokens, {"", "abc"}, {NoExpiry, {31}})

SlackTransmuteUrls == SlackTransmuteFrom({"bob"}, {"", "xyz"})

RedirectFrom(codes) ==
    \E short_code \in codes, commit \in CommitOutcomes : redirect_url(short_code, commit)

RedirectUrls == RedirectFrom(UrlCodes)

GetUrlStatsUrls ==
    \E token \in tokens \cup {Garbage}, short_code \in UrlCodes :
        get_url_stats(token, short_code)

DeleteUrlUrls ==
    \E token \in tokens \cup {Garbage}, short_code \in UrlCodes, commit \in CommitOutcomes :
        delete_url(token, short_code, commit)

TickUrls == TickTo(UrlInstants)

NextUrls ==
    \/ LoginUrls
    \/ ShortenUrlUrls
    \/ SlackTransmuteUrls
    \/ RedirectUrls
    \/ GetUrlStatsUrls
    \/ DeleteUrlUrls
    \/ TickUrls

SpecUrls == InitWith({{AdminRow}}, {0}) /\ [][NextUrls]_vars

\* The limits on the number of URLs of one owner.  The tables start as
\* earlier requests left them: the administrator one URL below the limit
\* of shorten_url, the account 'slackbot' one below the limit of
\* bot_shorten_url, and a Slack user with as many URLs as shorten_url
\* allows.
SlackBobRow == slack_bot_user(2, "slackbot-bob")

BotServiceRow == new_user(3, "slackbot", "b@x.com", get_password_hash("secret1", "s1"))

StoredUrls(prefix, n, user_id) ==
    {new_url_mapping("https://example.com", prefix \o ToString(i), user_id, NoExpiry) :
        i \in 1..n}

InitLimit ==
    /\ users = {AdminRow, SlackBobRow, BotServiceRow}
    /\ next_id = 4
    /\ url_mappings = StoredUrls("adm", MAX_URLS_PER_USER - 1, AdminRow.id)
                          \cup StoredUrls("bob", MAX_URLS_PER_USER, SlackBobRow.id)
                          \cup StoredUrls("bot", MAX_URLS_PER_BOT - 1, BotServiceRow.id)
    /\ on_delete = "NO ACTION"
    /\ output = {}
    /\ failed_login_attempts = [s \in {} |-> 0]
    /\ tokens = {}
    /\ now = 1
    /\ tz = 0
    /\ request = NoRequest
    /\ response = NoResponse
    /\ login_streak = [s \in Sources |-> [n |-> 0, at |-> 0]]

LimitCodes == {"", "abc", "xyz"}

ShortenUrlLimit == ShortenUrlFrom(tokens, LimitCodes, {NoExpiry})

BotShortenLimit == BotShortenFrom({API_KEY}, LimitCodes, {NoExpiry})

SlackTransmuteLimit == SlackTransmuteFrom({"bob"}, LimitCodes)

DeleteUrlLimit ==
    \E token \in tokens, short_code \in {"adm1", "abc"} :
        delete_url(token, short_code, "committed")

NextLimit ==
    \/ LoginUrls
    \/ ShortenUrlLimit
    \/ BotShortenLimit
    \/ SlackTransmuteLimit
    \/ DeleteUrlLimit

SpecLimit == InitLimit /\ [][NextLimit]_vars

(***************************************************************************)
(* Properties.                                                             *)
(***************************************************************************)
Range(seq) == {seq[i] : i \in DOMAIN seq}

LoginUsernames == UsernameInputs \cup {"admin", "carol"}
LoginPasswords == PasswordInputs \cup {"admin123"}

\* The rejections of the error taxonomy as a client sees them.
RateLimited(resp) == resp.status = HTTP_429_TOO_MANY_REQUESTS

InvalidCredentials ==
    [status |-> HTTP_401_UNAUTHORIZED, detail |-> "Incorrect username or password",
     body |-> {}]

InvalidToken ==
    [status |-> HTTP_401_UNAUTHORIZED, detail |-> "Could not validate credentials",
     body |-> {}]

NotFoundOrInactive ==
    [status |-> HTTP_401_UNAUTHORIZED, detail |-> "User not found or inactive",
     body |-> {}]

\* C1: once a source has made MAX_FAILED_ATTEMPTS consecutive logins with a
\* wrong password, every further login from it, the correct password
\* included, is answered RateLimited until LOCKOUT_DURATION has passed since
\* the last of them.
C1_LockedOutAfterFiveFailures ==
    [][\A source \in Sources, username \in LoginUsernames, password \in LoginPasswords :
         ( /\ Login(source, username, password)
           /\ login_streak[source].n >= MAX_FAILED_ATTEMPTS
           /\ now <= login_streak[source].at + LOCKOUT_DURATION )
         => RateLimited(response')]_vars

\* C2: a successful login leaves no tracker record for its source, whatever
\* the record held; a rejected login of a source without a record creates
\* one with count 1.
C2_SuccessClearsRecord ==
    [][\A source \in Sources, username \in LoginUsernames, password \in LoginPasswords :
         Login(source, username, password)
         => /\ response'.status = HTTP_200_OK
                => source \notin DOMAIN failed_login_attempts'
            /\ Visible(response') = InvalidCredentials
                 /\ source \notin DOMAIN failed_login_attempts
                => /\ source \in DOMAIN failed_login_attempts'
                   /\ failed_login_attempts'[source].count = 1]_vars

\* C3: a login from a source the tracker holds locked out is answered
\* RateLimited, verifies no password hash and records no failure.
C3_LockoutCheckedFirst ==
    [][\A source \in Sources, username \in LoginUsernames, password \in LoginPasswords :
         ( /\ Login(source, username, password)
           /\ ~check_rate_limit(failed_login_attempts, source, now).allowed )
         => /\ RateLimited(response')
            /\ "verify_password" \notin Range(response'.calls)
            /\ failed_login_attempts' = failed_login_attempts]_vars

\* C4: a login naming no account and a login naming an account with a wrong
\* password get the same rejection, InvalidCredentials: same status, same
\* message, no body.
UnknownIdentifier ==
    \A r \in users : lower(r.username) # lower(request.username)

WrongPassword ==
    /\ \E r \in users : lower(r.username) = lower(request.username)
    /\ \A r \in users : lower(r.username) = lower(request.username)
                          => ~verify_password(request.password, r.hashed_password)

C4_UnifiedRejection ==
    (response.op = "login" /\ (UnknownIdentifier \/ WrongPassword))
        => Visible(response) = InvalidCredentials

C4_Witness ==
    /\ response.op = "login"
    /\ WrongPassword
    /\ Visible(response) = InvalidCredentials

\* The account a token refers to, as the table holds it.
Referenced(token) == UsersById(users, token.payload.user_id)

\* C5: a token issued with ttl = ACCESS_TOKEN_EXPIRE_MINUTES for an account
\* that exists and is active is accepted by authorize at every time before
\* its issue time + ttl, and rejected as InvalidToken at every time after.
C5_TokenLifetime ==
    ( /\ response.op = "authorize"
      /\ request.token \in tokens
      /\ request.token.payload.exp =
            request.token.payload.iat + ACCESS_TOKEN_EXPIRE_MINUTES )
    => /\ ( /\ now < request.token.payload.iat + ACCESS_TOKEN_EXPIRE_MINUTES
            /\ \E r \in Referenced(request.token) : r.is_active )
          => /\ response.status = HTTP_200_OK
             /\ response.body = Referenced(request.token)
       /\ now > request.token.payload.iat + ACCESS_TOKEN_EXPIRE_MINUTES
          => Visible(response) = InvalidToken

C5_Witness ==
    /\ response.op = "authorize"
    /\ request.token \in tokens
    /\ request.token.payload.exp = request.token.payload.iat + ACCESS_TOKEN_EXPIRE_MINUTES
    /\ now > request.token.payload.exp
    /\ \E r \in Referenced(request.token) : r.is_active
    /\ Visible(response) = InvalidToken

\* C6: no token is accepted more than MAX_TOKEN_AGE after its issue time,
\* whatever ttl it was issued with.
C6_AbsoluteAgeCeiling ==
    (response.op = "authorize" /\ response.status = HTTP_200_OK)
        => now <= request.token.payload.iat + MAX_TOKEN_AGE

\* C7: authorize rejects as InvalidToken every token the server did not
\* issue (payload changed after signing), and an accepted token yields the
\* account it was issued for and no other.
C7_OnlySignedPayloads ==
    response.op = "authorize"
    => /\ request.token \notin tokens => Visible(response) = InvalidToken
       /\ response.status = HTTP_200_OK
          => /\ request.token \in tokens
             /\ \A r \in response.body :
                   /\ r.id = request.token.payload.user_id
                   /\ r.username = request.token.payload.sub

C7_Witness ==
    /\ response.op = "authorize"
    /\ request.token \notin tokens
    /\ \E t \in tokens, r \in users :
          /\ r.id # t.payload.user_id
          /\ request.token = Resigned(t, r.id)
    /\ Visible(response) = InvalidToken

\* C8 as claimed: with a token that verifies, authorize answers InvalidToken
\* when the account is gone, a rejection of its own (AccountInactive) when
\* the account is inactive, and the account when it is active.
ValidTokenPresented ==
    /\ response.op = "authorize"
    /\ verify_token(request.token, now, tz).status = HTTP_200_OK

C8_MissingIsInvalidToken ==
    ValidTokenPresented
    => /\ Referenced(request.token) = {} => Visible(response) = InvalidToken
       /\ (\E r \in Referenced(request.token) : ~r.is_active)
          => /\ response.status # HTTP_200_OK
             /\ Visible(response) # InvalidToken
       /\ (\E r \in Referenced(request.token) : r.is_active)
          => /\ response.status = HTTP_200_OK
             /\ response.body = Referenced(request.token)

\* C8 as amended: with a token that verifies, authorize answers one and the
\* same 401 "User not found or inactive" when the account is gone and when
\* it is inactive, and the account only when it exists and is active.
C8_NotFoundOrInactive ==
    ValidTokenPresented
    => IF \E r \in Referenced(request.token) : r.is_active
       THEN /\ response.status = HTTP_200_OK
            /\ response.body = Referenced(request.token)
       ELSE Visible(response) = NotFoundOrInactive

C8_Witness ==
    /\ ValidTokenPresented
    /\ Referenced(request.token) = {}
    /\ Visible(response) = NotFoundOrInactive

\* C9: a well-formed register request whose identifier equals a stored one
\* ignoring case fails with DuplicateIdentifier; one whose identifier is new
\* and whose email equals a stored one ignoring case fails with
\* DuplicateEmail (the identifier is checked first); either way the stored
\* accounts are unchanged.
EqualIgnoringCase(a, b) == lower(a) = lower(b)

DuplicateIdentifier ==
    [status |-> HTTP_400_BAD_REQUEST, detail |-> "Username already registered", body |-> {}]

DuplicateEmail ==
    [status |-> HTTP_400_BAD_REQUEST, detail |-> "Email already registered", body |-> {}]

C9_DuplicatesRejected ==
    [][\A username \in UsernameInputs, email \in EmailInputs,
          password \in PasswordInputs, salt \in Salts :
         ( /\ Register(username, email, password, salt)
           /\ validate_username(username)
           /\ validate_password(password) )
         => /\ (\E r \in users : EqualIgnoringCase(r.username, username))
               => /\ Visible(response') = DuplicateIdentifier
                  /\ users' = users
            /\ ( /\ \A r \in users : ~EqualIgnoringCase(r.username, username)
                 /\ \E r \in users : EqualIgnoringCase(r.email, email) )
               => /\ Visible(response') = DuplicateEmail
                  /\ users' = users]_vars

C9_Witness ==
    /\ response.op = "register"
    /\ Visible(response) = DuplicateIdentifier
    /\ \A r \in users : r.username # request.username
    /\ \E r \in users : EqualIgnoringCase(r.username, request.username)

C16_ExpiryWithinCeiling ==
    \A token \in tokens : token.payload.exp <= token.payload.iat + MAX_TOKEN_AGE

\* C17: every token verify_token refuses (bad signature, no parsable
\* payload, expiry passed, age over the ceiling) is refused with the one
\* rejection InvalidToken: same status, same message.
C17_SingleInvalidToken ==
    ( /\ response.op = "authorize"
      /\ verify_token(request.token, now, tz).status # HTTP_200_OK )
    => Visible(response) = InvalidToken

\* C18: a register request whose secret is shorter than MIN_PASSWORD_LENGTH
\* is rejected as WeakSecret (a validation error) and stores no account.
WeakSecret(resp) == resp.status = HTTP_422_UNPROCESSABLE_ENTITY

C18_ShortSecretRejected ==
    [][\A username \in UsernameInputs, email \in EmailInputs,
          password \in PasswordInputs, salt \in Salts :
         ( /\ Register(username, email, password, salt)
           /\ Len(password) < MIN_PASSWORD_LENGTH )
         => /\ WeakSecret(response')
            /\ users' = users]_vars

\* C11: every stored identifier and email is in lowercase form, and no two
\* accounts have identifiers, or emails, that are equal ignoring case,
\* whichever operation created them.
C11_LowercaseAndUnique ==
    /\ \A r \in users : r.username = lower(r.username) /\ r.email = lower(r.email)
    /\ \A r1 \in users, r2 \in users :
          r1 # r2 => /\ ~EqualIgnoringCase(r1.username, r2.username)
                     /\ ~EqualIgnoringCase(r1.email, r2.email)

\* C12: for a caller get_current_user accepts, get_admin_user returns that
\* account when its admin flag is true and fails with Forbidden when it is
\* false.
Forbidden ==
    [status |-> HTTP_403_FORBIDDEN, detail |-> "Admin access required", body |-> {}]

C12_RequireAdmin ==
    ( /\ response.op = "get_admin_user"
      /\ get_current_user(request.token, users, now, tz).status = HTTP_200_OK )
    => IF \E r \in Referenced(request.token) : r.is_admin
       THEN /\ response.status = HTTP_200_OK
            /\ response.body = Referenced(request.token)
       ELSE Visible(response) = Forbidden

\* C13: create user, list users, list all URLs, delete user and metrics
\* answer with success only to a caller who presents the token of an
\* existing, active account whose admin flag is true.
ManagementOps == {"create_user", "get_all_users", "get_all_urls", "delete_user", "metrics"}

C13_AdminGated ==
    (response.op \in ManagementOps /\ response.status = HTTP_200_OK)
    => /\ "token" \in DOMAIN request
       /\ get_current_user(request.token, users, now, tz).status = HTTP_200_OK
       /\ \E r \in Referenced(request.token) : r.is_active /\ r.is_admin

\* C14: no URL mapping in the store references an account that does not
\* exist, whichever handler or script has deleted accounts.
C14_NoOrphanUrls ==
    \A u \in url_mappings : UsersById(users, u.user_id) # {}

C14_Witness ==
    /\ response.op = "replace_admin"
    /\ response.status = 0
    /\ \E r \in response.body : r \notin users /\ "username" \in DOMAIN r
    /\ \E u \in response.body : u \notin url_mappings /\ "short_code" \in DOMAIN u
    /\ url_mappings # {}
    /\ C14_NoOrphanUrls

\* C15: every rejected login of a source raises the count of the source's
\* tracker record by exactly one (from 0 when there was no record), however
\* the requests of the source interleave.
C15_EveryFailureCounted ==
    [][\A source \in Sources, username \in LoginUsernames, password \in LoginPasswords :
         ( /\ Login(source, username, password)
           /\ Visible(response') = InvalidCredentials )
         => /\ source \in DOMAIN failed_login_attempts'
            /\ failed_login_attempts'[source].count =
                  (IF source \in DOMAIN failed_login_attempts
                   THEN failed_login_attempts[source].count ELSE 0) + 1]_vars

\* C19: verify_password answers False for a stored value that is not a
\* hash, and a login naming an account whose stored value is not a hash (the
\* Slack accounts) is rejected as InvalidCredentials whatever the password.
MalformedHashOnly ==
    /\ \E r \in users : lower(r.username) = lower(request.username)
    /\ \A r \in users : lower(r.username) = lower(request.username)
                          => r.hashed_password.alg # "bcrypt"

C19_MalformedHashRejected ==
    /\ \A password \in LoginPasswords \cup {SLACK_PLACEHOLDER.text} :
          ~verify_password(password, SLACK_PLACEHOLDER)
    /\ (response.op = "login" /\ MalformedHashOnly)
          => Visible(response) = InvalidCredentials

C19_Witness ==
    /\ response.op = "login"
    /\ MalformedHashOnly
    /\ request.password = SLACK_PLACEHOLDER.text
    /\ Visible(response) = InvalidCredentials

\* C20: no line an operation writes to the log or the console holds a
\* password, and no account stores a password in place of its hash.
Secrets == PasswordInputs \cup {"admin123", "casi42", "bot-no-login"}

C20_NoPlaintextSecret ==
    /\ \A line \in output : \A i \in DOMAIN line : line[i] \notin Secrets
    /\ \A r \in users :
          r.hashed_password.alg # "bcrypt" => r.hashed_password.text \notin Secrets

\* C21: verify_password(S, get_password_hash(S)) is true for every secret S,
\* and verify_password(S1, get_password_hash(S2)) is false for every two
\* distinct secrets S1 and S2.
C21_HashVerifyLaw ==
    /\ response.op = "get_password_hash"
          => /\ response.status = HTTP_200_OK
             /\ \A hashed \in response.body : verify_password(request.password, hashed)
    /\ response.op = "verify_password"
          => \A secret \in HasherSecrets, salt \in Salts :
                request.hashed_password = get_password_hash(secret, salt)
                   => response.body = {request.plain_password = secret}

\* C22: every tracker record has count >= 1 and holds a lockout-until time
\* exactly when its count is at least MAX_FAILED_ATTEMPTS; the failure that
\* brings the count to MAX_FAILED_ATTEMPTS sets it to that failure's time
\* plus LOCKOUT_DURATION.
RecordWellFormed(record) ==
    /\ record.count >= 1
    /\ record.lockout_until # {} <=> record.count >= MAX_FAILED_ATTEMPTS

C22_RecordInvariant ==
    [][ /\ \A source \in DOMAIN failed_login_attempts' :
              RecordWellFormed(failed_login_attempts'[source])
        /\ \A client_ip \in Sources :
              ( /\ RecordFailedAttempt(client_ip)
                /\ failed_login_attempts'[client_ip].count = MAX_FAILED_ATTEMPTS )
              => failed_login_attempts'[client_ip].lockout_until
                    = {now + LOCKOUT_DURATION} ]_vars

C22_Witness ==
    /\ response.op = "record_failed_attempt"
    /\ request.source \in DOMAIN failed_login_attempts
    /\ failed_login_attempts[request.source].count = MAX_FAILED_ATTEMPTS
    /\ failed_login_attempts[request.source].lockout_until = {now + LOCKOUT_DURATION}
    /\ now > 1

\* C23: check_rate_limit answers False exactly when the source has a record
\* whose lockout-until time has not passed; called after that time has
\* passed it removes the record and answers True; in every other case it
\* answers True and changes nothing.
LockoutActive(attempts, source, clock) ==
    /\ source \in DOMAIN attempts
    /\ \E until \in attempts[source].lockout_until : ~(clock > until)

LockoutExpired(attempts, source, clock) ==
    /\ source \in DOMAIN attempts
    /\ \E until \in attempts[source].lockout_until : clock > until

C23_CheckAllowed ==
    [][\A client_ip \in Sources :
         CheckRateLimit(client_ip)
         => /\ response'.body = {~LockoutActive(failed_login_attempts, client_ip, now)}
            /\ IF LockoutExpired(failed_login_attempts, client_ip, now)
               THEN failed_login_attempts' = Remove(failed_login_attempts, client_ip)
               ELSE failed_login_attempts' = failed_login_attempts]_vars

C23_Witness ==
    /\ response.op = "check_rate_limit"
    /\ response.body = {FALSE}
    /\ failed_login_attempts[request.source].lockout_until = {now}

\* C24: an operation of the tracker on one source changes neither the record
\* nor the allowed/locked answer of any other source, and a source is locked
\* only when its own record counts MAX_FAILED_ATTEMPTS failures or more.
TrackerOps == {"check_rate_limit", "record_failed_attempt", "clear_failed_attempts"}

SameRecord(before, after, source) ==
    IF source \in DOMAIN before
    THEN source \in DOMAIN after /\ after[source] = before[source]
    ELSE source \notin DOMAIN after

C24_KeyedBySource ==
    [][ /\ response'.op \in TrackerOps
           => \A other \in Sources \ {request'.source} :
                 /\ SameRecord(failed_login_attempts, failed_login_attempts', other)
                 /\ check_rate_limit(failed_login_attempts', other, now').allowed
                       = check_rate_limit(failed_login_attempts, other, now).allowed
        /\ \A source \in Sources :
              ~check_rate_limit(failed_login_attempts', source, now').allowed
                 => failed_login_attempts'[source].count >= MAX_FAILED_ATTEMPTS ]_vars

C24_Witness ==
    /\ response.op = "clear_failed_attempts"
    /\ request.source \notin DOMAIN failed_login_attempts
    /\ \E other \in Sources \ {request.source} :
          /\ ~check_rate_limit(failed_login_attempts, other, now).allowed
    /\ \E other \in Sources \ {request.source} :
          /\ other \in DOMAIN failed_login_attempts
          /\ failed_login_attempts[other].count >= MAX_FAILED_ATTEMPTS

\* C25: a record below the threshold is changed by nothing but
\* record_failed_attempt on its source (count + 1) and clear_failed_attempts
\* on its source (removed); the passage of time and check_rate_limit leave
\* it as it is, so failures any time apart add up.
C25_PartialRecordKept ==
    [][\A source \in DOMAIN failed_login_attempts :
         failed_login_attempts[source].count < MAX_FAILED_ATTEMPTS
         => \/ SameRecord(failed_login_attempts, failed_login_attempts', source)
            \/ /\ response'.op = "record_failed_attempt"
               /\ request'.source = source
               /\ failed_login_attempts'[source].count
                     = failed_login_attempts[source].count + 1
            \/ /\ response'.op = "clear_failed_attempts"
               /\ request'.source = source
               /\ source \notin DOMAIN failed_login_attempts']_vars

C25_Witness ==
    /\ response = NoResponse
    /\ now = 32
    /\ \E source \in DOMAIN failed_login_attempts :
          failed_login_attempts[source].count = MAX_FAILED_ATTEMPTS - 1

\* C26: with a clock that never goes back, a token verify_token rejects is
\* rejected by verify_token after every further step, so at every later
\* time: no token returns from rejected to valid.
Rejected(token, clock, offset) == verify_token(token, clock, offset).status # HTTP_200_OK

C26_RejectionIsFinal ==
    [][ /\ now' >= now
        /\ \A token \in TokenInputs :
              Rejected(token, now, tz) => Rejected(token, now', tz') ]_vars

C26_Witness ==
    /\ response.op = "authorize"
    /\ request.token \in tokens
    /\ Visible(response) = InvalidToken
    /\ now >= 1441
    /\ request.token.payload.exp < MAX_TOKEN_AGE

\* C27: no two rows of url_mappings share a short code, whichever of
\* shorten, bot shorten and Slack /transmute inserted them; a creation
\* request that names a custom code already in the table creates nothing
\* and leaves the table as it was.
CreationOps == {"shorten", "bot_shorten", "transmute"}

ShortCodesUnique(urls) ==
    \A u1 \in urls, u2 \in urls : u1.short_code = u2.short_code => u1 = u2

Clicked(u) == [u EXCEPT !.click_count = @ + 1]

C28_ClickCountExact ==
    [][ response'.op = "redirect" =>
          /\ response'.status = HTTP_308_PERMANENT_REDIRECT =>
                \E u \in UrlsByShortCode(url_mappings, request'.short_code) :
                    url_mappings' = (url_mappings \ {u}) \cup {Clicked(u)}
          /\ response'.status \in {HTTP_404_NOT_FOUND, HTTP_410_GONE} =>
                url_mappings' = url_mappings ]_vars

\* C30: statistics and deletion by an authenticated caller touch only the
\* caller's own rows.  For a short code owned by someone else both answer
\* 404 with an empty body, write no log line and leave url_mappings as it
\* was; statistics never change a row; a delete answered 200 removes the
\* one row of that short code, owned by the caller, and nothing else.
OwnerOps == {"stats", "delete_url"}

Caller == get_current_user(request'.token, users, now, tz)

OwnedByOther(u) == \A caller \in Caller.body : u.user_id # caller.id

C30_OwnRowsOnly ==
    [][ (response'.op \in OwnerOps /\ Caller.status = HTTP_200_OK) =>
          /\ (\E u \in UrlsByShortCode(url_mappings, request'.short_code) : OwnedByOther(u))
                => /\ Visible(response') = NotFoundOrNotAuthorized
                   /\ output' = {}
                   /\ url_mappings' = url_mappings
          /\ response'.op = "stats"
                => /\ url_mappings' = url_mappings
                   /\ \A row \in response'.body : \E u \in url_mappings :
                         ~OwnedByOther(u) /\ row = URLStats(u)
          /\ (response'.op = "delete_url" /\ response'.status = HTTP_200_OK)
                => \E u \in url_mappings :
                      /\ u.short_code = request'.short_code
                      /\ ~OwnedByOther(u)
                      /\ url_mappings' = url_mappings \ {u}
          /\ (response'.op = "delete_url" /\ response'.status # HTTP_200_OK)
                => url_mappings' = url_mappings ]_vars

C30_Witness ==
    /\ response.op = "delete_url"
    /\ request.token \in tokens
    /\ Visible(response) = NotFoundOrNotAuthorized
    /\ \E u \in url_mappings : u.short_code = request.short_code /\ u.click_count > 0
    /\ \E u \in url_mappings : u.short_code # request.short_code

\* C29: no account owns more URL rows than its limit, 500 for the account
\* 'slackbot' and 100 for every other; a shorten request of an owner who
\* is at the limit is refused and creates nothing.
url_limit(user) ==
    IF user.username = "slackbot" THEN MAX_URLS_PER_BOT ELSE MAX_URLS_PER_USER

C29_UrlLimit ==
    [][ /\ \A user \in users' :
              Cardinality(UrlsByUser(url_mappings', user.id)) <= url_limit(user)
        /\ \A user \in users :
              ( /\ \/ /\ response'.op = "shorten"
                      /\ user \in get_current_user(request'.token, users, now, tz).body
                      /\ Cardinality(UrlsByUser(url_mappings, user.id)) >= MAX_URLS_PER_USER
                   \/ /\ response'.op = "bot_shorten"
                      /\ request'.x_api_key = API_KEY
                      /\ user.username = "slackbot"
                      /\ Cardinality(UrlsByUser(url_mappings, user.id)) >= MAX_URLS_PER_BOT )
              => ( /\ response'.status # HTTP_200_OK
                   /\ url_mappings' = url_mappings ) ]_vars

====
